---- MODULE Spec2Model ----
(***************************************************************************)
(* A model of federationtypes.go of gomatrixserverlib:                     *)
(*   - RespState.Events, the cycle-detecting ordering of the state and     *)
(*     auth events of a /state response (SpecEvents, SpecEventsFair);      *)
(*   - RespState.Check and RespSendJoin.Check, the validation of a /state  *)
(*     and of a /send_join response (SpecCheck);                           *)
(*   - ParseAndValidateServerName with splitServerName (SpecServerName).   *)
(***************************************************************************)
EXTENDS Integers, Sequences, FiniteSets, TLC

VARIABLES
    StateEvents,  \* RespState.StateEvents: a sequence of events
    AuthEvents,   \* RespState.AuthEvents: a sequence of events
    eventsByID,   \* map[string]*Event of Events: event ID -> pointer or NilPtr
    queued,       \* map[*Event]bool of Events, as the set of pointers mapped to true
    outputted,    \* map[*Event]bool of Events, as the set of pointers mapped to true
    result,       \* the local slice "result" of Events
    stack,        \* the local slice "stack" of Events
    unvisited,    \* the keys of eventsByID the range loop has not reached yet
    pushed,       \* history: how often each pointer was appended to the stack as an auth event
    retEvents,    \* the slice a call returned
    err,          \* the error a call returned
    pc,           \* the position of the call
    method,       \* the method called
    joinEvent,    \* the argument joinEvent of RespSendJoin.Check
    allEvents,    \* the local slice "allEvents" of RespState.Check
    next,         \* the index in allEvents the last loop of RespState.Check is at
    calls,        \* history: the calls of the verifier, the auth set builder and the
                  \* auth rule evaluator, in order, with what each returned
    serverName,   \* the argument of ParseAndValidateServerName, a sequence of characters
    host,         \* the named result "host" of ParseAndValidateServerName
    port,         \* the named result "port"
    valid         \* the named result "valid"

vars == <<StateEvents, AuthEvents, eventsByID, queued, outputted, result, stack,
          unvisited, pushed, retEvents, err, pc, method, joinEvent, allEvents, next, calls,
          serverName, host, port, valid>>

\* The variables only RespState.Events uses, and those only the Check methods use.
eventsVars == <<queued, outputted, result, stack, unvisited, pushed, retEvents>>
checkVars == <<method, joinEvent, allEvents, next, calls>>
\* The variables only ParseAndValidateServerName uses, and those it never uses.
nameVars == <<serverName, host, port, valid>>
responseVars == <<StateEvents, AuthEvents, eventsByID, err>>

----------------------------------------------------------------------------
(* Bounds of the inputs. *)

\* the most events the two lists of one response hold together
MaxEvents == 3
\* the most auth event references one event declares
MaxRefs == 2
\* the same two bounds for the responses given to the Check methods
MaxCheckEvents == 3
MaxCheckRefs == 1
\* the most events of a response given to RespSendJoin.Check
MaxJoinEvents == 1
\* the most characters of a server name
MaxNameLen == 4

\* The event IDs of the model, in a fixed order.
IdOrder == <<"$a", "$b", "$c">>
EventIDs == {IdOrder[i] : i \in 1..Len(IdOrder)}

----------------------------------------------------------------------------
(* Data. *)

\* a nil *Event
NilPtr == [list |-> "nil", idx |-> 0]
\* a nil []Event
NilSlice == <<>>
\* a nil *string (Event.StateKey() of an event that is no state event)
NoStateKey == "<nil>"

\* An error value: its kind and the two values its message formats.
Err(kind, a, b) == [kind |-> kind, a |-> a, b |-> b]
NoError == Err("nil", "", "")

\* &r.StateEvents[i], &r.AuthEvents[i], &allEvents[i]
Ptr(list, i) == [list |-> list, idx |-> i]
\* *p
Deref(p) ==
    IF p.list = "state" THEN StateEvents[p.idx]
    ELSE IF p.list = "auth" THEN AuthEvents[p.idx]
    ELSE allEvents[p.idx]

\* The sequences over S of length n, and of length up to n.
SeqsOfLen(S, n) == [1..n -> S]
SeqsUpTo(S, n) == UNION {SeqsOfLen(S, k) : k \in 0..n}
NoRepeat(s) == \A i, j \in 1..Len(s) : i # j => s[i] # s[j]
Range(s) == {s[i] : i \in 1..Len(s)}

\* The auth_events lists the inputs draw from: each event is referenced once.
RefListsUpTo(n) == {s \in SeqsUpTo(EventIDs, n) : NoRepeat(s)}
RefLists == RefListsUpTo(MaxRefs)

\* The position of an ID in IdOrder.
IdIndex(id) == CHOOSE i \in 1..Len(IdOrder) : IdOrder[i] = id
\* Event IDs are opaque strings: the inputs name them in the order of their
\* first occurrence, every other input is one of these with its IDs renamed.
Canonical(ids) ==
    \A i \in 1..Len(ids) :
        \A j \in 1..(IdIndex(ids[i]) - 1) : \E k \in 1..(i - 1) : ids[k] = IdOrder[j]

\* An event: the ID is derived from the content, so one ID names one content.
MkEvent(id, type, key, auth) ==
    [EventID |-> id, Type |-> type, StateKey |-> key, AuthEvents |-> auth]

\* No event: the joinEvent of a call that takes none.
NoEvent == MkEvent("", "", NoStateKey, <<>>)

----------------------------------------------------------------------------
(* RespState.Events *)

\* The two loops that fill eventsByID: a later event replaces an earlier one
\* of the same ID.
RECURSIVE CollectEvents(_, _, _, _)
CollectEvents(m, events, list, i) ==
    IF i > Len(events) THEN m
    ELSE CollectEvents([m EXCEPT ![events[i].EventID] = Ptr(list, i)], events, list, i + 1)

\* ScanAuthEvents with a queued auth event skipped like a written one.
RECURSIVE ScanAuthEvents_SkipQueued(_, _)
ScanAuthEvents_SkipQueued(refs, i) ==
    IF i > Len(refs) THEN [outcome |-> "output", ref |-> ""]
    ELSE LET authEvent == eventsByID[refs[i]] IN
         IF authEvent = NilPtr THEN [outcome |-> "missing", ref |-> refs[i]]
         ELSE IF authEvent \in outputted \/ authEvent \in queued
              THEN ScanAuthEvents_SkipQueued(refs, i + 1)
         ELSE [outcome |-> "push", ref |-> refs[i]]

\* ScanAuthEvents without the check of queued: a queued auth event is pushed again.
RECURSIVE ScanAuthEvents_NoCycleCheck(_, _)
ScanAuthEvents_NoCycleCheck(refs, i) ==
    IF i > Len(refs) THEN [outcome |-> "output", ref |-> ""]
    ELSE LET authEvent == eventsByID[refs[i]] IN
         IF authEvent = NilPtr THEN [outcome |-> "missing", ref |-> refs[i]]
         ELSE IF authEvent \in outputted THEN ScanAuthEvents_NoCycleCheck(refs, i + 1)
         ELSE [outcome |-> "push", ref |-> refs[i]]

\* The scan of the auth events of the top of the stack, from reference i on:
\* what the loop body does at the first reference it does not skip.
RECURSIVE ScanAuthEvents(_, _)
ScanAuthEvents(refs, i) ==
    IF i > Len(refs) THEN [outcome |-> "output", ref |-> ""]
    ELSE LET authEvent == eventsByID[refs[i]] IN
         IF authEvent = NilPtr THEN [outcome |-> "missing", ref |-> refs[i]]
         ELSE IF authEvent \in outputted THEN ScanAuthEvents(refs, i + 1)
         ELSE IF authEvent \in queued THEN [outcome |-> "cycle", ref |-> refs[i]]
         ELSE [outcome |-> "push", ref |-> refs[i]]

Top == stack[Len(stack)]
TopScan == ScanAuthEvents(Deref(Top).AuthEvents, 1)

\* The state at the entry of Events for the lists of IDs sIds and aIds and the
\* auth events authOf of each ID.
EventsEntry(sIds, aIds, authOf) ==
    /\ StateEvents = [i \in 1..Len(sIds) |-> MkEvent(sIds[i], "m.room.member", "", authOf[sIds[i]])]
    /\ AuthEvents = [i \in 1..Len(aIds) |-> MkEvent(aIds[i], "m.room.member", "", authOf[aIds[i]])]
    /\ eventsByID = [id \in EventIDs |-> NilPtr]
    /\ queued = {}
    /\ outputted = {}
    /\ result = NilSlice
    /\ stack = <<>>
    /\ unvisited = {}
    /\ pushed = [p \in {} |-> 0]
    /\ retEvents = NilSlice
    /\ err = NoError
    /\ pc = "collect"
    /\ method = "RespState.Events"
    /\ joinEvent = NoEvent
    /\ allEvents = NilSlice
    /\ next = 0
    /\ calls = <<>>
    /\ serverName = <<>>
    /\ host = <<>>
    /\ port = 0
    /\ valid = FALSE

InitEvents ==
    \E sIds, aIds \in SeqsUpTo(EventIDs, MaxEvents) :
        /\ Len(sIds) + Len(aIds) <= MaxEvents
        /\ Canonical(sIds \o aIds)
        /\ \E present \in [Range(sIds) \cup Range(aIds) -> RefLists] :
             EventsEntry(sIds, aIds,
                 [id \in EventIDs |-> IF id \in DOMAIN present THEN present[id] ELSE <<>>])

\* Lines 183-190: collect the map of event ID to event.
Collect ==
    /\ pc = "collect"
    /\ eventsByID' = CollectEvents(CollectEvents(eventsByID, StateEvents, "state", 1),
                                   AuthEvents, "auth", 1)
    /\ unvisited' = {id \in EventIDs : eventsByID'[id] # NilPtr}
    /\ pc' = "range"
    /\ UNCHANGED <<StateEvents, AuthEvents, queued, outputted, result, stack, pushed,
                   retEvents, err>>
    /\ UNCHANGED checkVars
    /\ UNCHANGED nameVars

\* Lines 195-199: the range loop reaches an event that was written already.
RangeSkip ==
    /\ pc = "range"
    /\ \E id \in unvisited :
         /\ eventsByID[id] \in outputted
         /\ unvisited' = unvisited \ {id}
    /\ UNCHANGED <<StateEvents, AuthEvents, eventsByID, queued, outputted, result, stack,
                   pushed, retEvents, err, pc>>
    /\ UNCHANGED checkVars
    /\ UNCHANGED nameVars

\* RangeStart without the test of outputted.
RangeStart_NoSkip ==
    /\ pc = "range"
    /\ \E id \in unvisited :
         /\ unvisited' = unvisited \ {id}
         /\ stack' = <<eventsByID[id]>>
    /\ pc' = "top"
    /\ UNCHANGED <<StateEvents, AuthEvents, eventsByID, queued, outputted, result, pushed,
                   retEvents, err>>
    /\ UNCHANGED checkVars
    /\ UNCHANGED nameVars

\* Lines 195-206: the range loop reaches an event not written yet and starts a
\* stack with it. The map is ranged over in any order.
RangeStart ==
    /\ pc = "range"
    /\ \E id \in unvisited :
         /\ eventsByID[id] \notin outputted
         /\ unvisited' = unvisited \ {id}
         /\ stack' = <<eventsByID[id]>>
    /\ pc' = "top"
    /\ UNCHANGED <<StateEvents, AuthEvents, eventsByID, queued, outputted, result, pushed,
                   retEvents, err>>
    /\ UNCHANGED checkVars
    /\ UNCHANGED nameVars

\* Lines 216-219: the missing auth event error names the reference and the
\* event that declares it.
MissingAuthEventError_Swapped(ref, event) == Err("MissingAuthEvent", event.EventID, ref)
MissingAuthEventError(ref, event) == Err("MissingAuthEvent", ref, event.EventID)

\* Lines 215-220: an auth event of the top of the stack is not in the map.
MissingAuthEvent ==
    /\ pc = "top"
    /\ Len(stack) > 0
    /\ TopScan.outcome = "missing"
    /\ retEvents' = NilSlice
    /\ err' = MissingAuthEventError(TopScan.ref, Deref(Top))
    /\ pc' = "done"
    /\ UNCHANGED <<StateEvents, AuthEvents, eventsByID, queued, outputted, result, stack,
                   unvisited, pushed>>
    /\ UNCHANGED checkVars
    /\ UNCHANGED nameVars

\* Lines 224-229: an auth event of the top of the stack is queued and not written.
AuthEventCycle ==
    /\ pc = "top"
    /\ Len(stack) > 0
    /\ TopScan.outcome = "cycle"
    /\ retEvents' = NilSlice
    /\ err' = Err("AuthEventCycle", TopScan.ref, "")
    /\ pc' = "done"
    /\ UNCHANGED <<StateEvents, AuthEvents, eventsByID, queued, outputted, result, stack,
                   unvisited, pushed>>
    /\ UNCHANGED checkVars
    /\ UNCHANGED nameVars

\* Lines 233-235: an auth event of the top of the stack is pushed and queued.
\* (The stack of the code is unbounded: the guard on its length stops the model
\* two entries above the number of IDs, which the code never reaches.)
PushAuthEvent ==
    /\ pc = "top"
    /\ Len(stack) > 0
    /\ TopScan.outcome = "push"
    /\ Len(stack) <= Cardinality(EventIDs) + 1
    /\ LET authEvent == eventsByID[TopScan.ref] IN
         /\ stack' = Append(stack, authEvent)
         /\ queued' = queued \cup {authEvent}
         /\ pushed' = [p \in DOMAIN pushed \cup {authEvent} |->
                         IF p = authEvent
                         THEN (IF p \in DOMAIN pushed THEN pushed[p] ELSE 0) + 1
                         ELSE pushed[p]]
    /\ UNCHANGED <<StateEvents, AuthEvents, eventsByID, outputted, result, unvisited,
                   retEvents, err, pc>>
    /\ UNCHANGED checkVars
    /\ UNCHANGED nameVars

\* Lines 240-243: every auth event of the top of the stack is written: the top
\* is appended to the result and popped; an empty stack ends the inner loop.
\* (The guard on the length of the result stops the model at twice the number
\* of IDs, which the code never reaches.)
OutputTop ==
    /\ pc = "top"
    /\ Len(stack) > 0
    /\ TopScan.outcome = "output"
    /\ Len(result) <= 2 * Cardinality(EventIDs)
    /\ result' = Append(result, Deref(Top))
    /\ outputted' = outputted \cup {Top}
    /\ stack' = SubSeq(stack, 1, Len(stack) - 1)
    /\ pc' = IF Len(stack) = 1 THEN "range" ELSE "top"
    /\ UNCHANGED <<StateEvents, AuthEvents, eventsByID, queued, unvisited, pushed,
                   retEvents, err>>
    /\ UNCHANGED checkVars
    /\ UNCHANGED nameVars

\* Line 246: the range loop is over.
ReturnResult ==
    /\ pc = "range"
    /\ unvisited = {}
    /\ retEvents' = result
    /\ err' = NoError
    /\ pc' = "done"
    /\ UNCHANGED <<StateEvents, AuthEvents, eventsByID, queued, outputted, result, stack,
                   unvisited, pushed>>
    /\ UNCHANGED checkVars
    /\ UNCHANGED nameVars

NextEvents ==
    \/ Collect
    \/ RangeSkip
    \/ RangeStart
    \/ MissingAuthEvent
    \/ AuthEventCycle
    \/ PushAuthEvent
    \/ OutputTop
    \/ ReturnResult

SpecEvents == InitEvents /\ [][NextEvents]_vars

\* Events is one sequential call: a step that can be taken is taken.
SpecEventsFair == InitEvents /\ [][NextEvents]_vars /\ WF_vars(NextEvents)

----------------------------------------------------------------------------
(* The collaborators of the Check methods: VerifyAllEventSignatures, the     *)
(* AuthEvents set with AddEvent, and Allowed. Their results are not decided  *)
(* by this file: every call returns success or an error, and is recorded.    *)

\* The records of calls.
VerifyCall(res) ==
    [fn |-> "VerifyAllEventSignatures", event |-> "", site |-> "RespState.Check", res |-> res]
AddCall(id, site, res) == [fn |-> "AddEvent", event |-> id, site |-> site, res |-> res]
AllowedCall(id, site, res) == [fn |-> "Allowed", event |-> id, site |-> site, res |-> res]

\* The places that build an auth set: checkAllowedByAuthEvents called by
\* RespState.Check and by RespSendJoin.Check, and the loop over the state
\* events of RespSendJoin.Check.
SiteCheck == "RespState.Check/auth_events"
SiteJoinOwn == "RespSendJoin.Check/auth_events"
SiteJoinState == "RespSendJoin.Check/state"

\* The errors the collaborators return.
SignatureErrors == {Err("SignatureError", "bad signature", ""),
                    Err("SignatureError", "key expired", "")}
BuildError(id) == Err("BuildError", id, "")
AuthError == "auth rules"

\* Lines 255, 263: the error for an event without a state key.
NotStateEvent(event) == Err("NotStateEvent", event.EventID, "")
\* Lines 267-270: the error for a repeated state key tuple.
DuplicateStateKey(event) == Err("DuplicateStateKey", event.Type, event.StateKey)
\* Lines 431-434: the error for an event its auth events do not allow.
NotAuthorized(event, reason) == Err("NotAuthorized", event.EventID, reason)
\* NotAuthorizedBySuppliedState with the message of checkAllowedByAuthEvents.
NotAuthorizedBySuppliedState_AuthEventsMessage(event, reason) ==
    Err("NotAuthorized", event.EventID, reason)
\* Lines 380-383: the error for a join event the supplied state does not allow.
NotAuthorizedBySuppliedState(event, reason) ==
    Err("NotAuthorizedBySuppliedState", event.EventID, reason)

Min(S) == CHOOSE x \in S : \A y \in S : x <= y

\* checkAllowedByAuthEvents without the test for a missing auth event: a
\* reference that is not in the map is passed over.
CheckAllowedByAuthEvents_SkipMissing(event, index, site) ==
    LET refs == event.AuthEvents
        found == {i \in 1..Len(refs) : index[refs[i]] # NilPtr}
        Adds(k) == [i \in 1..Cardinality({j \in found : j < k}) |->
                      AddCall(refs[Min({j \in found :
                                 Cardinality({h \in found : h <= j}) = i})], site, NoError)]
    IN  {[calls |-> Adds(Len(refs) + 1)
                      \o <<AllowedCall(event.EventID, site, Err("AuthError", AuthError, ""))>>,
          err |-> NotAuthorized(event, AuthError)],
         [calls |-> Adds(Len(refs) + 1) \o <<AllowedCall(event.EventID, site, NoError)>>,
          err |-> NoError]}

\* Lines 416-437, checkAllowedByAuthEvents: the outcomes of one call, each the
\* calls it makes and the error it returns. The references are looked up in
\* order and each event found is added to a fresh auth set; the first
\* reference that is not in the map, or the first event the set rejects, ends
\* the call; then Allowed decides.
CheckAllowedByAuthEvents(event, index, site) ==
    LET refs == event.AuthEvents
        missing == {i \in 1..Len(refs) : index[refs[i]] = NilPtr}
        n == IF missing = {} THEN Len(refs) ELSE Min(missing) - 1
        Adds(k) == [i \in 1..k |-> AddCall(refs[i], site, NoError)]
    IN  {[calls |-> Adds(k - 1) \o <<AddCall(refs[k], site, BuildError(refs[k]))>>,
          err |-> BuildError(refs[k])] : k \in 1..n}
        \cup
        (IF missing # {}
         THEN {[calls |-> Adds(n), err |-> MissingAuthEventError(refs[n + 1], event)]}
         ELSE {[calls |-> Adds(n)
                            \o <<AllowedCall(event.EventID, site, Err("AuthError", AuthError, ""))>>,
                err |-> NotAuthorized(event, AuthError)],
               [calls |-> Adds(n) \o <<AllowedCall(event.EventID, site, NoError)>>,
                err |-> NoError]})

----------------------------------------------------------------------------
(* RespState.Check *)

\* Lines 253-258: the loop over the auth events, from event i on.
RECURSIVE ScanAuthChain(_, _)
ScanAuthChain(events, i) ==
    IF i > Len(events) THEN [outcome |-> "ok", idx |-> 0]
    ELSE IF events[i].StateKey = NoStateKey THEN [outcome |-> "notState", idx |-> i]
    ELSE ScanAuthChain(events, i + 1)

\* ScanStateEvents that never records a tuple in stateTuples.
RECURSIVE ScanStateEvents_NoRecord(_, _, _)
ScanStateEvents_NoRecord(events, i, stateTuples) ==
    IF i > Len(events) THEN [outcome |-> "ok", idx |-> 0]
    ELSE IF events[i].StateKey = NoStateKey THEN [outcome |-> "notState", idx |-> i]
    ELSE IF <<events[i].Type, events[i].StateKey>> \in stateTuples
         THEN [outcome |-> "duplicate", idx |-> i]
    ELSE ScanStateEvents_NoRecord(events, i + 1, stateTuples)

\* Lines 260-274: the loop over the state events, from event i on, with the
\* tuples seen so far: each event is tested for its state key and then for
\* its tuple before the next event is looked at.
RECURSIVE ScanStateEvents(_, _, _)
ScanStateEvents(events, i, stateTuples) ==
    IF i > Len(events) THEN [outcome |-> "ok", idx |-> 0]
    ELSE IF events[i].StateKey = NoStateKey THEN [outcome |-> "notState", idx |-> i]
    ELSE IF <<events[i].Type, events[i].StateKey>> \in stateTuples
         THEN [outcome |-> "duplicate", idx |-> i]
    ELSE ScanStateEvents(events, i + 1,
                         stateTuples \cup {<<events[i].Type, events[i].StateKey>>})

\* The auth_events lists, the (type, state key) pairs and the join events the
\* inputs of the Check methods draw from.
CheckRefLists == RefListsUpTo(MaxCheckRefs)
Slots == {<<"m.room.create", "">>, <<"m.room.member", "">>, <<"m.room.member", NoStateKey>>}
JoinEvents == {MkEvent("$join", "m.room.member", "@joiner:origin", refs) : refs \in CheckRefLists}

\* The state at the entry of a Check method.
CheckEntry(sIds, aIds, content, m, join) ==
    /\ StateEvents = [i \in 1..Len(sIds) |->
                        MkEvent(sIds[i], content[sIds[i]][1][1], content[sIds[i]][1][2],
                                content[sIds[i]][2])]
    /\ AuthEvents = [i \in 1..Len(aIds) |->
                        MkEvent(aIds[i], content[aIds[i]][1][1], content[aIds[i]][1][2],
                                content[aIds[i]][2])]
    /\ method = m
    /\ joinEvent = join
    /\ allEvents = NilSlice
    /\ next = 0
    /\ calls = <<>>
    /\ serverName = <<>>
    /\ host = <<>>
    /\ port = 0
    /\ valid = FALSE
    /\ eventsByID = [id \in EventIDs |-> NilPtr]
    /\ queued = {}
    /\ outputted = {}
    /\ result = NilSlice
    /\ stack = <<>>
    /\ unvisited = {}
    /\ pushed = [p \in {} |-> 0]
    /\ retEvents = NilSlice
    /\ err = NoError
    /\ pc = "authChain"

\* An event of the response has no state key, or two state events share a
\* tuple: RespState.Check returns before it reads the auth events of any event,
\* so these responses are drawn with empty auth_events lists only.
StructureFails(sIds, content) ==
    \/ \E id \in DOMAIN content : content[id][1][2] = NoStateKey
    \/ \E i, j \in 1..Len(sIds) : i < j /\ content[sIds[i]][1] = content[sIds[j]][1]

InitCheck ==
    \E sIds, aIds \in SeqsUpTo(EventIDs, MaxCheckEvents) :
        /\ Len(sIds) + Len(aIds) <= MaxCheckEvents
        /\ Canonical(sIds \o aIds)
        /\ \E content \in [Range(sIds) \cup Range(aIds) -> Slots \X CheckRefLists] :
             /\ StructureFails(sIds, content) => \A id \in DOMAIN content : content[id][2] = <<>>
             /\ \/ CheckEntry(sIds, aIds, content, "RespState.Check", NoEvent)
                \/ /\ Len(sIds) + Len(aIds) <= MaxJoinEvents
                   /\ \E join \in JoinEvents :
                        CheckEntry(sIds, aIds, content, "RespSendJoin.Check", join)

\* Lines 253-256: an auth event has no state key.
AuthEventNotState ==
    /\ pc = "authChain"
    /\ LET scan == ScanAuthChain(AuthEvents, 1) IN
         /\ scan.outcome = "notState"
         /\ allEvents' = SubSeq(AuthEvents, 1, scan.idx - 1)
         /\ err' = NotStateEvent(AuthEvents[scan.idx])
    /\ pc' = "done"
    /\ UNCHANGED <<StateEvents, AuthEvents, eventsByID, method, joinEvent, next, calls>>
    /\ UNCHANGED eventsVars
    /\ UNCHANGED nameVars

\* Lines 253-258: every auth event has a state key.
AuthChainPasses ==
    /\ pc = "authChain"
    /\ ScanAuthChain(AuthEvents, 1).outcome = "ok"
    /\ allEvents' = AuthEvents
    /\ pc' = "stateEvents"
    /\ UNCHANGED <<StateEvents, AuthEvents, eventsByID, err, method, joinEvent, next, calls>>
    /\ UNCHANGED eventsVars
    /\ UNCHANGED nameVars

\* Lines 261-264: the loop over the state events reaches one without state key.
StateEventNotState ==
    /\ pc = "stateEvents"
    /\ LET scan == ScanStateEvents(StateEvents, 1, {}) IN
         /\ scan.outcome = "notState"
         /\ allEvents' = allEvents \o SubSeq(StateEvents, 1, scan.idx - 1)
         /\ err' = NotStateEvent(StateEvents[scan.idx])
    /\ pc' = "done"
    /\ UNCHANGED <<StateEvents, AuthEvents, eventsByID, method, joinEvent, next, calls>>
    /\ UNCHANGED eventsVars
    /\ UNCHANGED nameVars

\* Lines 265-271: the loop over the state events reaches one whose tuple an
\* earlier state event has.
DuplicateStateKeyTuple ==
    /\ pc = "stateEvents"
    /\ LET scan == ScanStateEvents(StateEvents, 1, {}) IN
         /\ scan.outcome = "duplicate"
         /\ allEvents' = allEvents \o SubSeq(StateEvents, 1, scan.idx - 1)
         /\ err' = DuplicateStateKey(StateEvents[scan.idx])
    /\ pc' = "done"
    /\ UNCHANGED <<StateEvents, AuthEvents, eventsByID, method, joinEvent, next, calls>>
    /\ UNCHANGED eventsVars
    /\ UNCHANGED nameVars

\* Lines 261-274: the loop over the state events ends.
StateEventsPass ==
    /\ pc = "stateEvents"
    /\ ScanStateEvents(StateEvents, 1, {}).outcome = "ok"
    /\ allEvents' = allEvents \o StateEvents
    /\ pc' = "verify"
    /\ UNCHANGED <<StateEvents, AuthEvents, eventsByID, err, method, joinEvent, next, calls>>
    /\ UNCHANGED eventsVars
    /\ UNCHANGED nameVars

\* VerifyFails with the error dropped: the call goes on to the auth checks.
VerifyFails_Ignored ==
    /\ pc = "verify"
    /\ \E e \in SignatureErrors : calls' = Append(calls, VerifyCall(e))
    /\ eventsByID' = CollectEvents([id \in EventIDs |-> NilPtr], allEvents, "all", 1)
    /\ next' = 1
    /\ pc' = "allowed"
    /\ UNCHANGED <<StateEvents, AuthEvents, err, method, joinEvent, allEvents>>
    /\ UNCHANGED eventsVars
    /\ UNCHANGED nameVars

\* Lines 278-280: VerifyAllEventSignatures returns an error, which is returned.
VerifyFails ==
    /\ pc = "verify"
    /\ \E e \in SignatureErrors :
         /\ calls' = Append(calls, VerifyCall(e))
         /\ err' = e
    /\ pc' = "done"
    /\ UNCHANGED <<StateEvents, AuthEvents, eventsByID, method, joinEvent, allEvents, next>>
    /\ UNCHANGED eventsVars
    /\ UNCHANGED nameVars

\* Lines 278-286: VerifyAllEventSignatures returns nil; the map of event ID to
\* event is collected from allEvents.
VerifyPasses ==
    /\ pc = "verify"
    /\ calls' = Append(calls, VerifyCall(NoError))
    /\ eventsByID' = CollectEvents([id \in EventIDs |-> NilPtr], allEvents, "all", 1)
    /\ next' = 1
    /\ pc' = "allowed"
    /\ UNCHANGED <<StateEvents, AuthEvents, err, method, joinEvent, allEvents>>
    /\ UNCHANGED eventsVars
    /\ UNCHANGED nameVars

\* Lines 289-292: checkAllowedByAuthEvents returns an error for the next event.
EventNotAllowed ==
    /\ pc = "allowed"
    /\ next <= Len(allEvents)
    /\ \E out \in CheckAllowedByAuthEvents(allEvents[next], eventsByID, SiteCheck) :
         /\ out.err # NoError
         /\ calls' = calls \o out.calls
         /\ err' = out.err
    /\ pc' = "done"
    /\ UNCHANGED <<StateEvents, AuthEvents, eventsByID, method, joinEvent, allEvents, next>>
    /\ UNCHANGED eventsVars
    /\ UNCHANGED nameVars

\* Lines 289-293: checkAllowedByAuthEvents returns nil for the next event.
EventAllowed ==
    /\ pc = "allowed"
    /\ next <= Len(allEvents)
    /\ \E out \in CheckAllowedByAuthEvents(allEvents[next], eventsByID, SiteCheck) :
         /\ out.err = NoError
         /\ calls' = calls \o out.calls
    /\ next' = next + 1
    /\ UNCHANGED <<StateEvents, AuthEvents, eventsByID, err, pc, method, joinEvent, allEvents>>
    /\ UNCHANGED eventsVars
    /\ UNCHANGED nameVars

\* Line 295: RespState.Check returns nil, to its caller or (line 360) to
\* RespSendJoin.Check.
CheckReturnsNil ==
    /\ pc = "allowed"
    /\ next > Len(allEvents)
    /\ pc' = IF method = "RespSendJoin.Check" THEN "joinState" ELSE "done"
    /\ UNCHANGED <<StateEvents, AuthEvents, eventsByID, err, method, joinEvent, allEvents,
                   next, calls>>
    /\ UNCHANGED eventsVars
    /\ UNCHANGED nameVars

----------------------------------------------------------------------------
(* RespSendJoin.Check, after RespState.Check returned nil *)

\* Lines 364-370: the loop over the state events; AddEvent rejects the k-th.
JoinAddEventFails ==
    /\ pc = "joinState"
    /\ \E k \in 1..Len(StateEvents) :
         /\ calls' = calls
                \o [i \in 1..(k - 1) |-> AddCall(StateEvents[i].EventID, SiteJoinState, NoError)]
                \o <<AddCall(StateEvents[k].EventID, SiteJoinState,
                             BuildError(StateEvents[k].EventID))>>
         /\ err' = BuildError(StateEvents[k].EventID)
    /\ pc' = "done"
    /\ UNCHANGED <<StateEvents, AuthEvents, eventsByID, method, joinEvent, allEvents, next>>
    /\ UNCHANGED eventsVars
    /\ UNCHANGED nameVars

\* Lines 364-371: the loop over the state events ends: every state event is in
\* stateEventsByID and in the auth set.
JoinStateCollected ==
    /\ pc = "joinState"
    /\ calls' = calls
           \o [i \in 1..Len(StateEvents) |-> AddCall(StateEvents[i].EventID, SiteJoinState, NoError)]
    /\ eventsByID' = CollectEvents([id \in EventIDs |-> NilPtr], StateEvents, "state", 1)
    /\ pc' = "joinOwn"
    /\ UNCHANGED <<StateEvents, AuthEvents, err, method, joinEvent, allEvents, next>>
    /\ UNCHANGED eventsVars
    /\ UNCHANGED nameVars

\* JoinOwnFails with the error dropped: the call goes on to the supplied state.
JoinOwnFails_Ignored ==
    /\ pc = "joinOwn"
    /\ \E out \in CheckAllowedByAuthEvents(joinEvent, eventsByID, SiteJoinOwn) :
         /\ out.err # NoError
         /\ calls' = calls \o out.calls
    /\ pc' = "joinAllowed"
    /\ UNCHANGED <<StateEvents, AuthEvents, eventsByID, err, method, joinEvent, allEvents, next>>
    /\ UNCHANGED eventsVars
    /\ UNCHANGED nameVars

\* Lines 374-376: checkAllowedByAuthEvents returns an error for the join event.
JoinOwnFails ==
    /\ pc = "joinOwn"
    /\ \E out \in CheckAllowedByAuthEvents(joinEvent, eventsByID, SiteJoinOwn) :
         /\ out.err # NoError
         /\ calls' = calls \o out.calls
         /\ err' = out.err
    /\ pc' = "done"
    /\ UNCHANGED <<StateEvents, AuthEvents, eventsByID, method, joinEvent, allEvents, next>>
    /\ UNCHANGED eventsVars
    /\ UNCHANGED nameVars

\* Lines 374-376: checkAllowedByAuthEvents returns nil for the join event.
JoinOwnPasses ==
    /\ pc = "joinOwn"
    /\ \E out \in CheckAllowedByAuthEvents(joinEvent, eventsByID, SiteJoinOwn) :
         /\ out.err = NoError
         /\ calls' = calls \o out.calls
    /\ pc' = "joinAllowed"
    /\ UNCHANGED <<StateEvents, AuthEvents, eventsByID, err, method, joinEvent, allEvents, next>>
    /\ UNCHANGED eventsVars
    /\ UNCHANGED nameVars

\* Lines 379-385: Allowed rejects the join event against the supplied state.
JoinNotAllowedByState ==
    /\ pc = "joinAllowed"
    /\ calls' = Append(calls, AllowedCall(joinEvent.EventID, SiteJoinState,
                                          Err("AuthError", AuthError, "")))
    /\ err' = NotAuthorizedBySuppliedState(joinEvent, AuthError)
    /\ pc' = "done"
    /\ UNCHANGED <<StateEvents, AuthEvents, eventsByID, method, joinEvent, allEvents, next>>
    /\ UNCHANGED eventsVars
    /\ UNCHANGED nameVars

\* Lines 379-387: Allowed accepts the join event against the supplied state.
JoinAllowed ==
    /\ pc = "joinAllowed"
    /\ calls' = Append(calls, AllowedCall(joinEvent.EventID, SiteJoinState, NoError))
    /\ err' = NoError
    /\ pc' = "done"
    /\ UNCHANGED <<StateEvents, AuthEvents, eventsByID, method, joinEvent, allEvents, next>>
    /\ UNCHANGED eventsVars
    /\ UNCHANGED nameVars

NextCheck ==
    \/ AuthEventNotState
    \/ AuthChainPasses
    \/ StateEventNotState
    \/ DuplicateStateKeyTuple
    \/ StateEventsPass
    \/ VerifyFails
    \/ VerifyPasses
    \/ EventNotAllowed
    \/ EventAllowed
    \/ CheckReturnsNil
    \/ JoinAddEventFails
    \/ JoinStateCollected
    \/ JoinOwnFails
    \/ JoinOwnPasses
    \/ JoinNotAllowedByState
    \/ JoinAllowed

SpecCheck == InitCheck /\ [][NextCheck]_vars

----------------------------------------------------------------------------
(* ParseAndValidateServerName. A string is a sequence of characters.         *)

\* The characters the server names are made of: the separators, a decimal
\* digit, a letter that is a hexadecimal digit too, and a character that no
\* DNS name has.
Chars == {":", ".", "[", "]", "1", "a", "_"}

DecDigits == <<"0", "1", "2", "3", "4", "5", "6", "7", "8", "9">>
HexDigits == DecDigits \o <<"a", "b", "c", "d", "e", "f">>
DigitVal(c, digits) == (CHOOSE i \in 1..Len(digits) : digits[i] = c) - 1

\* The number of characters of s from position i on that are digits.
RECURSIVE CountDigits(_, _, _)
CountDigits(s, digits, i) ==
    IF i <= Len(s) /\ s[i] \in Range(digits) THEN 1 + CountDigits(s, digits, i + 1) ELSE 0
\* The value of the first c characters of s in the base of the digits.
RECURSIVE ToInt(_, _, _)
ToInt(s, digits, c) ==
    IF c = 0 THEN 0 ELSE ToInt(s, digits, c - 1) * Len(digits) + DigitVal(s[c], digits)

Failed == [ok |-> FALSE, val |-> 0]

\* strconv.ParseUint(s, 10, 16): s is one or more decimal digits and the value
\* fits 16 bits.
ParseUint16(s) ==
    IF Len(s) > 0 /\ CountDigits(s, DecDigits, 1) = Len(s) /\ ToInt(s, DecDigits, Len(s)) < 65536
    THEN [ok |-> TRUE, val |-> ToInt(s, DecDigits, Len(s))]
    ELSE Failed

\* strings.LastIndex(s, ":"), counted from 1; 0 if there is none.
LastColon(s) ==
    IF \E i \in 1..Len(s) : s[i] = ":"
    THEN CHOOSE i \in 1..Len(s) : s[i] = ":" /\ \A j \in (i + 1)..Len(s) : s[j] # ":"
    ELSE 0

\* Lines 88-105, splitServerName.
splitServerName(name) ==
    LET lastColon == LastColon(name) IN
    IF lastColon = 0 THEN [host |-> name, port |-> -1]
    ELSE LET parsed == ParseUint16(SubSeq(name, lastColon + 1, Len(name))) IN
         IF ~parsed.ok THEN [host |-> name, port |-> -1]
         ELSE [host |-> SubSeq(name, 1, lastColon - 1), port |-> parsed.val]

\* Lines 68-82, isDNSNameChar.
isDNSNameChar(r) ==
    \/ r \in {"A", "B", "C", "D", "E", "F", "G", "H", "I", "J", "K", "L", "M",
              "N", "O", "P", "Q", "R", "S", "T", "U", "V", "W", "X", "Y", "Z"}
    \/ r \in {"a", "b", "c", "d", "e", "f", "g", "h", "i", "j", "k", "l", "m",
              "n", "o", "p", "q", "r", "s", "t", "u", "v", "w", "x", "y", "z"}
    \/ r \in Range(DecDigits)
    \/ r = "-" \/ r = "."

\* net.parseIPv4: four decimal fields of at most 255, without leading zero,
\* separated by dots. The result is the four bytes.
RECURSIVE ParseIPv4Fields(_, _)
ParseIPv4Fields(s, p) ==
    IF Len(p) = 4 THEN (IF Len(s) = 0 THEN [ok |-> TRUE, val |-> p] ELSE Failed)
    ELSE IF Len(s) = 0 THEN Failed
    ELSE IF Len(p) > 0 /\ s[1] # "." THEN Failed
    ELSE LET t == IF Len(p) > 0 THEN Tail(s) ELSE s
             c == CountDigits(t, DecDigits, 1)
             n == ToInt(t, DecDigits, c)
         IN  IF c = 0 \/ n > 255 \/ (c > 1 /\ t[1] = "0") THEN Failed
             ELSE ParseIPv4Fields(SubSeq(t, c + 1, Len(t)), Append(p, n))

\* The loop of net.parseIPv6 over the hexadecimal fields: p is the bytes parsed
\* so far, ellipsis the number of bytes before the "::" (-1: none yet). The
\* result is the bytes and the place of the ellipsis.
RECURSIVE ParseIPv6Fields(_, _, _)
ParseIPv6Fields(s, p, ellipsis) ==
    IF Len(p) >= 16 THEN [ok |-> Len(s) = 0, val |-> p, ellipsis |-> ellipsis]
    ELSE LET c == CountDigits(s, HexDigits, 1)
             n == ToInt(s, HexDigits, c)
             bad == [ok |-> FALSE, val |-> p, ellipsis |-> ellipsis]
         IN  IF c = 0 \/ n > 65535 THEN bad
             ELSE IF c < Len(s) /\ s[c + 1] = "."
             THEN \* a trailing IPv4 address
                  IF (ellipsis < 0 /\ Len(p) # 12) \/ Len(p) + 4 > 16 THEN bad
                  ELSE LET ip4 == ParseIPv4Fields(s, <<>>) IN
                       IF ~ip4.ok THEN bad
                       ELSE [ok |-> TRUE, val |-> p \o ip4.val, ellipsis |-> ellipsis]
             ELSE LET q == p \o <<n \div 256, n % 256>>
                      rest == SubSeq(s, c + 1, Len(s))
                  IN  IF Len(rest) = 0 THEN [ok |-> TRUE, val |-> q, ellipsis |-> ellipsis]
                      ELSE IF rest[1] # ":" \/ Len(rest) = 1 THEN bad
                      ELSE IF rest[2] = ":"
                      THEN IF ellipsis >= 0 THEN bad
                           ELSE IF Len(rest) = 2
                           THEN [ok |-> TRUE, val |-> q, ellipsis |-> Len(q)]
                           ELSE ParseIPv6Fields(SubSeq(rest, 3, Len(rest)), q, Len(q))
                      ELSE ParseIPv6Fields(Tail(rest), q, ellipsis)

\* net.parseIPv6: the sixteen bytes of the address.
ParseIPv6(s) ==
    LET leading == Len(s) >= 2 /\ s[1] = ":" /\ s[2] = ":"
        zeros(k) == [i \in 1..k |-> 0]
    IN  IF leading /\ Len(s) = 2 THEN [ok |-> TRUE, val |-> zeros(16)]
        ELSE LET r == IF leading THEN ParseIPv6Fields(SubSeq(s, 3, Len(s)), <<>>, 0)
                      ELSE ParseIPv6Fields(s, <<>>, -1)
             IN  IF ~r.ok THEN Failed
                 ELSE IF Len(r.val) < 16
                 THEN IF r.ellipsis < 0 THEN Failed
                      ELSE [ok |-> TRUE,
                            val |-> SubSeq(r.val, 1, r.ellipsis) \o zeros(16 - Len(r.val))
                                      \o SubSeq(r.val, r.ellipsis + 1, Len(r.val))]
                 ELSE IF r.ellipsis >= 0 THEN Failed
                 ELSE [ok |-> TRUE, val |-> r.val]

\* net.ParseIP: the first dot or colon decides between IPv4 and IPv6. The
\* result tells whether s is an address and whether To4 of it is not nil.
ParseIP(s) ==
    LET marks == {i \in 1..Len(s) : s[i] \in {".", ":"}} IN
    IF marks = {} THEN [ok |-> FALSE, is4 |-> FALSE]
    ELSE IF s[Min(marks)] = "."
    THEN [ok |-> ParseIPv4Fields(s, <<>>).ok, is4 |-> ParseIPv4Fields(s, <<>>).ok]
    ELSE LET ip == ParseIPv6(s) IN
         [ok |-> ip.ok,
          is4 |-> ip.ok /\ SubSeq(ip.val, 1, 12) = <<0, 0, 0, 0, 0, 0, 0, 0, 0, 0, 255, 255>>]

InitServerName ==
    /\ serverName \in SeqsUpTo(Chars, MaxNameLen)
    /\ host = <<>>
    /\ port = 0
    /\ valid = FALSE
    /\ pc = "parse"
    /\ StateEvents = NilSlice
    /\ AuthEvents = NilSlice
    /\ eventsByID = [id \in EventIDs |-> NilPtr]
    /\ queued = {}
    /\ outputted = {}
    /\ result = NilSlice
    /\ stack = <<>>
    /\ unvisited = {}
    /\ pushed = [p \in {} |-> 0]
    /\ retEvents = NilSlice
    /\ err = NoError
    /\ method = "ParseAndValidateServerName"
    /\ joinEvent = NoEvent
    /\ allEvents = NilSlice
    /\ next = 0
    /\ calls = <<>>

\* Lines 26-28: the empty server name returns the zero values of the results.
EmptyServerName ==
    /\ pc = "parse"
    /\ Len(serverName) = 0
    /\ pc' = "done"
    /\ UNCHANGED <<nameVars, responseVars, eventsVars, checkVars>>

\* Line 30: the name is split into host and port.
SplitHostPort ==
    /\ pc = "parse"
    /\ Len(serverName) # 0
    /\ host' = splitServerName(serverName).host
    /\ port' = splitServerName(serverName).port
    /\ pc' = "host"
    /\ UNCHANGED <<serverName, valid, responseVars, eventsVars, checkVars>>

\* Line 37: host[0] of an empty host is an index out of range: the call panics.
EmptyHostPanics ==
    /\ pc = "host"
    /\ Len(host) = 0
    /\ pc' = "panic"
    /\ UNCHANGED <<nameVars, responseVars, eventsVars, checkVars>>

\* Lines 37-48: a host that starts with '[' is valid if it ends with ']' and
\* an IP address is between the two.
BracketedHost ==
    /\ pc = "host"
    /\ Len(host) > 0
    /\ host[1] = "["
    /\ valid' = (host[Len(host)] = "]" /\ ParseIP(SubSeq(host, 2, Len(host) - 1)).ok)
    /\ pc' = "done"
    /\ UNCHANGED <<serverName, host, port, responseVars, eventsVars, checkVars>>

\* Lines 50-65: any other host is valid if it is an IPv4 address or has only
\* the characters of a DNS name.
AddressOrNameHost ==
    /\ pc = "host"
    /\ Len(host) > 0
    /\ host[1] # "["
    /\ valid' = (\/ ParseIP(host).ok /\ ParseIP(host).is4
                 \/ \A i \in 1..Len(host) : isDNSNameChar(host[i]))
    /\ pc' = "done"
    /\ UNCHANGED <<serverName, host, port, responseVars, eventsVars, checkVars>>

NextServerName ==
    \/ EmptyServerName
    \/ SplitHostPort
    \/ EmptyHostPanics
    \/ BracketedHost
    \/ AddressOrNameHost

SpecServerName == InitServerName /\ [][NextServerName]_vars

----------------------------------------------------------------------------
(* The input of Events as a graph. *)

InputEvents == Range(StateEvents) \cup Range(AuthEvents)
InputIDs == {e.EventID : e \in InputEvents}
\* The IDs the event of this ID names in its auth events.
Refs(id) == UNION {Range(e.AuthEvents) : e \in {x \in InputEvents : x.EventID = id}}
\* Every reference resolves to an event of the input.
GapFree == \A id \in InputIDs : Refs(id) \subseteq InputIDs
\* The IDs of the input reached from the IDs S in up to n further steps.
RECURSIVE Reachable(_, _)
Reachable(S, n) ==
    IF n = 0 THEN S
    ELSE Reachable(S \cup UNION {Refs(x) \cap InputIDs : x \in S}, n - 1)
\* The event of this ID reaches itself over one or more references.
OnCycle(id) == id \in Reachable(Refs(id) \cap InputIDs, Cardinality(EventIDs))
HasCycle == \E id \in InputIDs : OnCycle(id)

\* The error is the missing auth event error of a reference that an event of
\* the input declares and that no event of the input resolves.
NamesMissingReference ==
    /\ err.kind = "MissingAuthEvent"
    /\ err.a \notin InputIDs
    /\ err.b \in InputIDs
    /\ err.a \in Refs(err.b)

\* C1: when Events returns without error, the returned sequence has exactly one
\* entry per distinct event ID of the two input lists, and every event in it
\* comes strictly after every event named in its own AuthEvents.
C1_OrderedOncePerID ==
    (pc = "done" /\ err = NoError) =>
        /\ {retEvents[i].EventID : i \in 1..Len(retEvents)} = InputIDs
        /\ Len(retEvents) = Cardinality(InputIDs)
        /\ \A i \in 1..Len(retEvents) :
             \A ref \in Range(retEvents[i].AuthEvents) :
                \E j \in 1..(i - 1) : retEvents[j].EventID = ref

\* C1's case: an event that is in both lists, and an ordering of two or more
\* events of which one has auth events.
C1_Witness ==
    /\ pc = "done" /\ err = NoError
    /\ \E e \in Range(StateEvents) : e \in Range(AuthEvents)
    /\ Len(retEvents) >= 2
    /\ \E i \in 1..Len(retEvents) : retEvents[i].AuthEvents # <<>>

\* C2: when every reference resolves and the reference graph has a cycle,
\* Events returns, whatever order the roots are taken in, the auth event cycle
\* error for an event on a cycle, and a nil slice.
C2_CycleReported ==
    (pc = "done" /\ GapFree /\ HasCycle) =>
        /\ err.kind = "AuthEventCycle"
        /\ OnCycle(err.a)
        /\ retEvents = NilSlice

\* C2's case: a cycle found after an event off the cycle was appended to the
\* local result.
C2_Witness ==
    /\ pc = "done" /\ GapFree /\ HasCycle
    /\ err.kind = "AuthEventCycle"
    /\ Len(result) > 0
    /\ \E id \in InputIDs : Len(Deref(eventsByID[id]).AuthEvents) = 2 /\ OnCycle(id)

\* C3 as stated: whenever an event references an ID that no event of the input
\* has, Events returns the missing auth event error naming that reference and
\* an event declaring it, whatever else the input holds.
C3_AlwaysMissingError ==
    (pc = "done" /\ ~GapFree) => NamesMissingReference

\* C3 amended: whenever an event references an ID that no event of the input
\* has, Events returns an error and a nil slice: the missing auth event error
\* naming an unresolved reference and an event declaring it, or, only when the
\* references of the input also form a cycle, the auth event cycle error.
C3_MissingOrCycleError ==
    (pc = "done" /\ ~GapFree) =>
        /\ retEvents = NilSlice
        /\ \/ NamesMissingReference
           \/ err.kind = "AuthEventCycle" /\ OnCycle(err.a)
        /\ ~HasCycle => NamesMissingReference

\* C3's case: a missing reference found after other events were written.
C3_Witness ==
    /\ pc = "done" /\ ~GapFree /\ ~HasCycle
    /\ NamesMissingReference
    /\ Len(result) > 0

\* The stack holds at most one entry more than there are events, no event was
\* pushed as an auth event twice, and a call that ended returned an error or
\* an ordering of all events.
C9_Bounded ==
    /\ Len(stack) <= Cardinality(InputIDs) + 1
    /\ \A p \in DOMAIN pushed : pushed[p] <= 1
    /\ pc = "done" =>
         \/ err # NoError
         \/ {retEvents[i].EventID : i \in 1..Len(retEvents)} = InputIDs

\* C9: Events terminates on every input, acyclic, cyclic or with missing
\* references: the stack never holds more than the number of distinct events
\* plus one entries, an event is pushed as an auth event at most once, and the
\* call ends with a complete result or an error.
C9_Terminates == []C9_Bounded /\ <>(pc = "done")

\* C9's case: a cycle through the root fills the stack with one entry more
\* than there are events.
C9_Witness ==
    /\ Cardinality(InputIDs) = Cardinality(EventIDs)
    /\ Len(stack) = Cardinality(InputIDs) + 1
    /\ \A p \in Range(stack) : p \in DOMAIN pushed => pushed[p] = 1

----------------------------------------------------------------------------
(* The claims about RespState.Check and RespSendJoin.Check. *)

HasStateKey(events) == \A i \in 1..Len(events) : events[i].StateKey # NoStateKey
Tuple(event) == <<event.Type, event.StateKey>>
StateIDs == {StateEvents[i].EventID : i \in 1..Len(StateEvents)}
\* The positions in calls of the calls of fn made at site.
CallsOf(fn, site) == {i \in 1..Len(calls) : calls[i].fn = fn /\ calls[i].site = site}
VerifyCalls == CallsOf("VerifyAllEventSignatures", "RespState.Check")

\* RespState.Check returned nil: to its caller, or to RespSendJoin.Check.
CheckReturnedNil ==
    \/ method = "RespState.Check" /\ pc = "done" /\ err = NoError
    \/ method = "RespSendJoin.Check" /\ pc = "joinState"

\* C4: in one call of RespState.Check the verifier is called at most once, and
\* only when every auth event and every state event has a state key and no two
\* state events share a tuple; the auth set builder and Allowed are called only
\* after a call of the verifier that returned nil; and an error of the
\* verifier ends the call and is the error returned.
C4_VerifierOnceBeforeAuth ==
    /\ Cardinality(VerifyCalls) <= 1
    /\ VerifyCalls # {} =>
         /\ HasStateKey(AuthEvents)
         /\ HasStateKey(StateEvents)
         /\ \A i, j \in 1..Len(StateEvents) :
              i # j => Tuple(StateEvents[i]) # Tuple(StateEvents[j])
    /\ \A i \in 1..Len(calls) :
         calls[i].fn \in {"AddEvent", "Allowed"} =>
             \E j \in VerifyCalls : j < i /\ calls[j].res = NoError
    /\ \A j \in VerifyCalls :
         calls[j].res # NoError => pc = "done" /\ err = calls[j].res /\ Len(calls) = j

\* C4's case: the verifier rejected a response of two or more events that
\* passed the structural checks.
C4_Witness ==
    /\ pc = "done"
    /\ err \in SignatureErrors
    /\ Len(allEvents) >= 2
    /\ \E j \in VerifyCalls : calls[j].res = err

\* C5 as stated: when RespState.Check returns nil, every reference of an event
\* of the response resolves to an event of the response, and no event reaches
\* itself over references.
C5_GapFreeAndAcyclic == CheckReturnedNil => (GapFree /\ ~HasCycle)

\* C5 amended: when RespState.Check returns nil, every ID named in the
\* AuthEvents of an event of the response resolves to an event of the response
\* (a cycle of references is not looked for).
C5_GapFree == CheckReturnedNil => GapFree

\* C5's case: a response of two or more events with references is accepted.
C5_Witness ==
    /\ CheckReturnedNil
    /\ Cardinality(InputIDs) >= 2
    /\ \E id \in InputIDs : Refs(id) # {} /\ id \notin Refs(id)

\* C6: in RespSendJoin.Check, when Allowed accepts the join event against the
\* set built from its own auth events and rejects it against the set built from
\* the state events, the error is NotAuthorizedBySuppliedState for the join
\* event; and the call returns nil only if both calls of Allowed accept.
OwnAccepted ==
    \E i \in CallsOf("Allowed", SiteJoinOwn) :
        calls[i].event = joinEvent.EventID /\ calls[i].res = NoError
StateVerdict(accepted) ==
    \E i \in CallsOf("Allowed", SiteJoinState) :
        calls[i].event = joinEvent.EventID /\ (calls[i].res = NoError) = accepted
C6_SuppliedStateError ==
    (method = "RespSendJoin.Check" /\ pc = "done") =>
        /\ (OwnAccepted /\ StateVerdict(FALSE)) =>
              /\ err.kind = "NotAuthorizedBySuppliedState"
              /\ err.a = joinEvent.EventID
        /\ err = NoError => (OwnAccepted /\ StateVerdict(TRUE))

\* C6's case: the join event names a state event, is accepted against its own
\* auth events and rejected against the supplied state.
C6_Witness ==
    /\ method = "RespSendJoin.Check" /\ pc = "done"
    /\ OwnAccepted /\ StateVerdict(FALSE)
    /\ joinEvent.AuthEvents # <<>>
    /\ Len(StateEvents) >= 1

\* The first state event, in the order of the list, that has no state key or
\* has the tuple of an earlier state event; 0 if there is none.
FirstBadStateEvent ==
    LET bad == {i \in 1..Len(StateEvents) :
                   \/ StateEvents[i].StateKey = NoStateKey
                   \/ \E j \in 1..(i - 1) : Tuple(StateEvents[j]) = Tuple(StateEvents[i])}
    IN  IF bad = {} THEN 0 ELSE Min(bad)
FirstAuthWithoutStateKey ==
    Min({i \in 1..Len(AuthEvents) : AuthEvents[i].StateKey = NoStateKey})

\* C7 as stated: the structural steps are applied one after the other: when
\* every auth event has a state key and some state event has none, the error
\* is the NotStateEvent error of a state event without state key, wherever it
\* is in the list; the DuplicateStateKey error is returned only when every
\* state event has a state key.
C7_StepsInOrder ==
    (pc = "done" /\ HasStateKey(AuthEvents)) =>
        /\ ~HasStateKey(StateEvents) =>
              /\ err.kind = "NotStateEvent"
              /\ \E i \in 1..Len(StateEvents) :
                    StateEvents[i].StateKey = NoStateKey /\ StateEvents[i].EventID = err.a
        /\ err.kind = "DuplicateStateKey" => HasStateKey(StateEvents)

\* C7 amended: an auth event without state key gives the NotStateEvent error of
\* the first such auth event; otherwise the state events are tested one by one
\* in the order of the list, each for its state key and then for its tuple, and
\* the error is that of the first state event that has no state key
\* (NotStateEvent) or repeats the tuple of an earlier one (DuplicateStateKey):
\* a duplicate is reported although a later state event has no state key.
C7_FirstFailingEvent ==
    pc = "done" =>
        IF ~HasStateKey(AuthEvents)
        THEN err = NotStateEvent(AuthEvents[FirstAuthWithoutStateKey])
        ELSE IF FirstBadStateEvent = 0
        THEN err.kind \notin {"NotStateEvent", "DuplicateStateKey"}
        ELSE LET event == StateEvents[FirstBadStateEvent] IN
             IF event.StateKey = NoStateKey
             THEN err = Err("NotStateEvent", event.EventID, "")
             ELSE err = Err("DuplicateStateKey", event.Type, event.StateKey)

\* C7's case: a duplicate tuple is reported for a list that holds, further on,
\* an event without state key.
C7_Witness ==
    /\ pc = "done"
    /\ err.kind = "DuplicateStateKey"
    /\ ~HasStateKey(StateEvents)

\* The validation of the response passed: the verifier and, for every event of
\* allEvents, Allowed returned nil.
ValidationPassed ==
    /\ \E j \in VerifyCalls : calls[j].res = NoError
    /\ Cardinality({i \in CallsOf("Allowed", SiteCheck) : calls[i].res = NoError})
         = Len(StateEvents) + Len(AuthEvents)
\* The join event's first auth event is no state event: its own check fails.
OwnCheckFailsOnInput ==
    joinEvent.AuthEvents # <<>> /\ joinEvent.AuthEvents[1] \notin StateIDs
\* The step of RespSendJoin.Check a call belongs to.
Phase(c) ==
    IF c.site \in {"RespState.Check", SiteCheck} THEN 0
    ELSE IF c.site = SiteJoinState /\ c.fn = "AddEvent" THEN 1
    ELSE IF c.site = SiteJoinOwn THEN 2
    ELSE 3

\* C8 as stated: the auth set builder is not given a state event of the full
\* list before the join event's check against its own auth events has passed,
\* and when the validation passes and that check fails, the error is its
\* MissingAuthEvent or NotAuthorized error.
C8_OwnCheckBeforeStateSet ==
    /\ \A i \in CallsOf("AddEvent", SiteJoinState) :
          \E j \in CallsOf("Allowed", SiteJoinOwn) : j < i /\ calls[j].res = NoError
    /\ (method = "RespSendJoin.Check" /\ pc = "done" /\ ValidationPassed
            /\ OwnCheckFailsOnInput) =>
          err.kind \in {"MissingAuthEvent", "NotAuthorized"}

\* C8 amended: RespSendJoin.Check first validates the response; then it gives
\* every state event to the auth set builder, returning at once the error of a
\* state event the builder rejects; then it checks the join event against its
\* own auth events, looked up among the state events only; then it asks Allowed
\* about the join event and the set of all state events. It stops at the first
\* failure: when the validation passes, the builder accepts every state event
\* and the own check fails, the error is that of the own check and Allowed is
\* not asked about the full state.
C8_StateSetThenOwnCheck ==
    method = "RespSendJoin.Check" =>
        /\ \A i, j \in 1..Len(calls) : i < j => Phase(calls[i]) <= Phase(calls[j])
        /\ (\E i \in 1..Len(calls) : Phase(calls[i]) >= 1) => ValidationPassed
        /\ \A i \in CallsOf("AddEvent", SiteJoinState) :
              calls[i].res # NoError =>
                  /\ pc = "done" /\ err = calls[i].res /\ Len(calls) = i
        /\ (\E i \in 1..Len(calls) : Phase(calls[i]) = 2) \/ pc \in {"joinOwn", "joinAllowed"} =>
              /\ Cardinality(CallsOf("AddEvent", SiteJoinState)) = Len(StateEvents)
              /\ \A i \in CallsOf("AddEvent", SiteJoinState) : calls[i].res = NoError
        /\ (\E i \in 1..Len(calls) : Phase(calls[i]) = 3) => OwnAccepted
        /\ (pc = "done" /\ ValidationPassed /\ OwnCheckFailsOnInput
              /\ \A i \in CallsOf("AddEvent", SiteJoinState) : calls[i].res = NoError) =>
              /\ err.kind = "MissingAuthEvent"
              /\ err.b = joinEvent.EventID
              /\ CallsOf("Allowed", SiteJoinState) = {}

\* C8's case: the builder rejects a state event of a response whose join event
\* names an auth event that is no state event.
C8_Witness ==
    /\ method = "RespSendJoin.Check" /\ pc = "done"
    /\ ValidationPassed
    /\ OwnCheckFailsOnInput
    /\ \E i \in CallsOf("AddEvent", SiteJoinState) : calls[i].res # NoError
    /\ err.kind = "BuildError"

----------------------------------------------------------------------------
(* The claim about ParseAndValidateServerName. *)

\* The text after the last colon of the name is a port number.
HasExplicitPort ==
    /\ LastColon(serverName) > 0
    /\ LET portStr == SubSeq(serverName, LastColon(serverName) + 1, Len(serverName)) IN
         /\ Len(portStr) > 0
         /\ \A i \in 1..Len(portStr) : portStr[i] \in Range(DecDigits)
         /\ ToInt(portStr, DecDigits, Len(portStr)) <= 65535

\* C10: ParseAndValidateServerName returns for every name, without a run-time
\* failure; for a name that is a colon and a port number it returns valid =
\* false; and for a name without explicit port it returns -1 as the port.
\* (The empty name, for which the code returns the zero values before it
\* splits anything, is not counted here as a name without explicit port.)
C10_ReturnsForEveryName ==
    /\ pc # "panic"
    /\ pc = "done" =>
         /\ (HasExplicitPort /\ LastColon(serverName) = 1) => ~valid
         /\ (Len(serverName) > 0 /\ ~HasExplicitPort) => port = -1

====
